---- MODULE Spec2Model ----
(***************************************************************************)
(* A model of DocXEditor (src/DocXEditor.py): one editing session over a   *)
(* word-processing document.  The document is the XML tree of              *)
(* word/document.xml: a body of paragraphs (w:p), each an ordered list of  *)
(* children: runs (w:r) holding text elements (w:t) and formatting         *)
(* (w:rPr), deletion revisions (w:del) and insertion revisions (w:ins).    *)
(* Texts are sequences of characters.                                      *)
(***************************************************************************)
EXTENDS Integers, Sequences, FiniteSets

\* ------------------------------------------------------------------ bounds
\* Calls made in one session.
MaxOps == 3
\* Paragraphs in the document the session opens.
MaxParas == 2

\* ------------------------------------------------------------- documents
\* Formatting of a run (w:rPr): its character style (w:rStyle) and its direct
\* properties (bold, ...).  A run built without w:rPr has NoFmt.
NoFmt == [style |-> "", props |-> ""]
RichFmt == [style |-> "Strong", props |-> "b"]

\* A run: ts are the texts of its w:t children in order, cm says whether a
\* comment reference is attached to it.
Run(ts, fmt) ==
  [kind |-> "r", ts |-> ts, fmt |-> fmt, id |-> 0, author |-> "", kids |-> <<>>, cm |-> FALSE]

\* The run inside a w:del: its text is a w:delText, not a w:t.
DelRun(text) ==
  [kind |-> "rdel", ts |-> <<text>>, fmt |-> NoFmt, id |-> 0, author |-> "", kids |-> <<>>, cm |-> FALSE]

\* <w:del w:id w:author><w:r><w:delText>text</w:delText></w:r></w:del>
DelNode(id, author, text) ==
  [kind |-> "del", ts |-> <<>>, fmt |-> NoFmt, id |-> id, author |-> author,
   kids |-> <<DelRun(text)>>, cm |-> FALSE]

\* <w:ins w:id w:author> kids </w:ins>
InsNode(id, author, kids) ==
  [kind |-> "ins", ts |-> <<>>, fmt |-> NoFmt, id |-> id, author |-> author,
   kids |-> kids, cm |-> FALSE]

\* A file of the disk that holds a document (the word/document.xml of a .docx
\* or of the unzipped temp_dir), or no file.
File(doc) == [exists |-> TRUE, doc |-> doc]
NoFile == [exists |-> FALSE, doc |-> <<>>]

\* ------------------------------------------------------------------ texts
\* Python: s in t
Contains(t, s) ==
  \E i \in 0..(Len(t) - Len(s)) : SubSeq(t, i + 1, i + Len(s)) = s

\* The offset of the first occurrence of s in t.
FirstPos(t, s) ==
  CHOOSE i \in 0..(Len(t) - Len(s)) :
    /\ SubSeq(t, i + 1, i + Len(s)) = s
    /\ \A j \in 0..(i - 1) : SubSeq(t, j + 1, j + Len(s)) # s

\* Python: before, _, after = t.partition(s), for s non-empty (an empty s raises
\* ValueError, which the callers model); (t, "", "") when s is not in t.
partition(t, s) ==
  IF Contains(t, s)
  THEN LET i == FirstPos(t, s)
       IN [before |-> SubSeq(t, 1, i), after |-> SubSeq(t, i + Len(s) + 1, Len(t))]
  ELSE [before |-> t, after |-> <<>>]

\* Python: not s.strip()
IsBlank(s) == \A i \in 1..Len(s) : s[i] = " "

RECURSIVE Concat(_)
\* "".join(ts)
Concat(ts) == IF ts = <<>> THEN <<>> ELSE Head(ts) \o Concat(Tail(ts))

\* ---------------------------------------------------------- tree queries
RECURSIVE NodesOf(_)
\* Every node of a child list, in document order (//* below a parent).
NodesOf(kids) ==
  IF kids = <<>> THEN <<>>
  ELSE <<Head(kids)>> \o NodesOf(Head(kids).kids) \o NodesOf(Tail(kids))

RECURSIVE AllNodes(_)
\* Every node below the paragraphs of a document, in document order.
AllNodes(doc) ==
  IF doc = <<>> THEN <<>> ELSE NodesOf(Head(doc)) \o AllNodes(Tail(doc))

Range(s) == {s[i] : i \in 1..Len(s)}

Max(S) == CHOOSE x \in S : \A y \in S : y <= x

\* _highest_existing_change_id on a document.xml: max of //w:ins/@w:id and
\* //w:del/@w:id, 0 if there is none (or no file).
highest_existing_change_id(file) ==
  IF ~file.exists THEN 0
  ELSE LET ids == {n.id : n \in {m \in Range(AllNodes(file.doc)) : m.kind \in {"ins", "del"}}}
       IN IF ids = {} THEN 0 ELSE Max(ids)

\* ------------------------------------------------- modify_text_in_doc
\* Line 127 with the containment test lost.
TextMatchesAnyText(text, old_text) == text # <<>>

\* Line 127: the w:t elements the scan does not skip.
TextMatches(text, old_text) == text # <<>> /\ Contains(text, old_text)

RECURSIVE Matches(_, _)
\* Whether node n holds, at any depth, a w:t that line 127 does not skip
\* (para.xpath(".//w:t"): a w:delText is no w:t).
Matches(n, old_text) ==
  IF n.kind = "r"
  THEN \E j \in 1..Len(n.ts) : TextMatches(n.ts[j], old_text)
  ELSE \E k \in 1..Len(n.kids) : Matches(n.kids[k], old_text)

ParaMatches(para, old_text) == \E k \in 1..Len(para) : Matches(para[k], old_text)

\* Lines 166-170: the run built for the trailing text: a bare w:r with one w:t.
run_after(after, parent_run) == Run(<<after>>, NoFmt)

\* Lines 144-151.
del_el(change_id, author, old_text) == DelNode(change_id, author, old_text)

\* Lines 155-162.
ins_el(change_id, author, new_text) ==
  InsNode(change_id, author, <<Run(<< <<" ">> \o new_text >>, NoFmt)>>)

\* Lines 130-171 on p, the parent of the matched run: kids are p's children, k
\* the matched run's index in p (run_idx), the first matching w:t of that run
\* being t.
SpliceChange(kids, k, old_text, new_text, author, change_id) ==
  LET parent_run == kids[k]
      j == CHOOSE x \in 1..Len(parent_run.ts) :
             /\ TextMatches(parent_run.ts[x], old_text)
             /\ \A y \in 1..(x - 1) : ~TextMatches(parent_run.ts[y], old_text)
      parts == partition(parent_run.ts[j], old_text)
      kept == IF parts.before # <<>>
              THEN <<[parent_run EXCEPT !.ts[j] = parts.before]>>
              ELSE <<>>
      trailing == IF parts.after # <<>> THEN <<run_after(parts.after, parent_run)>> ELSE <<>>
  IN SubSeq(kids, 1, k - 1) \o kept
       \o <<del_el(change_id, author, old_text), ins_el(change_id, author, new_text)>>
       \o trailing \o SubSeq(kids, k + 1, Len(kids))

RECURSIVE ModifyKids(_, _, _, _, _)
\* The edit of the first w:t, in document order, below the children kids
\* that line 127 does not skip; its parent run's parent may be the paragraph
\* or any element between (lines 131-132).
ModifyKids(kids, old_text, new_text, author, change_id) ==
  LET k == CHOOSE x \in 1..Len(kids) :
             /\ Matches(kids[x], old_text)
             /\ \A y \in 1..(x - 1) : ~Matches(kids[y], old_text)
  IN IF kids[k].kind = "r"
     THEN SpliceChange(kids, k, old_text, new_text, author, change_id)
     ELSE [kids EXCEPT ![k].kids =
             ModifyKids(kids[k].kids, old_text, new_text, author, change_id)]

\* Line 172 as a break out of both loops: no paragraph after the first match.
NextParaStop(i, n) == n + 1

\* Line 172: the break leaves the loop over the paragraph's w:t elements; the
\* loop over the n paragraphs goes on with the one after paragraph i.
NextPara(i, n) == i + 1

\* _next_change_id handing out the same value again.
AdvanceStuck(counter) == counter

\* _next_change_id: the counter after one next().
Advance(counter) == counter + 1

RECURSIVE ModifyFrom(_, _, _, _, _, _, _)
\* Lines 125-172 from paragraph i on: the tree and the counter at the end, the
\* change ids drawn (after those of ids), and whether partition raised
\* ValueError (an empty old_text on a non-empty w:t).
ModifyFrom(tree, i, old_text, new_text, author, counter, ids) ==
  IF i > Len(tree) THEN [tree |-> tree, counter |-> counter, ids |-> ids, raised |-> FALSE]
  ELSE IF ~ParaMatches(tree[i], old_text)
  THEN ModifyFrom(tree, i + 1, old_text, new_text, author, counter, ids)
  ELSE IF old_text = <<>>
  THEN [tree |-> tree, counter |-> counter, ids |-> ids, raised |-> TRUE]
  ELSE ModifyFrom([tree EXCEPT ![i] = ModifyKids(tree[i], old_text, new_text, author, counter)],
                  NextPara(i, Len(tree)), old_text, new_text, author, Advance(counter),
                  Append(ids, counter))

\* -------------------------------------------- add_comment_to_paragraph
\* python-docx: run.text, the texts of the run's w:t children joined.
RunText(run) == Concat(run.ts)

RECURSIVE ParaText(_)
\* python-docx: para.text, the texts of para.runs joined; para.runs are the
\* w:r children of the w:p itself, not the runs inside a w:ins or a w:del.
ParaText(para) ==
  IF para = <<>> THEN <<>>
  ELSE (IF Head(para).kind = "r" THEN RunText(Head(para)) ELSE <<>>) \o ParaText(Tail(para))

\* Lines 211-223: whether the loop over doc.paragraphs stops at para.
ParaHasTarget(para, target_text) ==
  /\ Contains(ParaText(para), target_text)
  /\ \E k \in 1..Len(para) : para[k].kind = "r" /\ Contains(RunText(para[k]), target_text)

\* Lines 233 and 238: new_run.style = run.style copies the character style
\* (w:rStyle) and nothing else of the run's w:rPr.
CopiedFmt(fmt) == [style |-> fmt.style, props |-> ""]

\* Line 230: run.text = before clears the run's content, keeps its w:rPr, and
\* adds one w:t when before is not empty; the w:r element itself stays.
SetText(run, text) == [run EXCEPT !.ts = IF text = <<>> THEN <<>> ELSE <<text>>]

\* Lines 249, 251 and 255: add_run("") with the comment attached to it.
AnchorRun == [Run(<<>>, NoFmt) EXCEPT !.cm = TRUE]

\* Lines 216-252 on the paragraph found: the run split and, unless
\* new_paragraph, the anchor run after the target run.
SplitPara(para, target_text, new_paragraph) ==
  LET k == CHOOSE x \in 1..Len(para) :
             /\ para[x].kind = "r" /\ Contains(RunText(para[x]), target_text)
             /\ \A y \in 1..(x - 1) :
                  ~(para[y].kind = "r" /\ Contains(RunText(para[y]), target_text))
      run == para[k]
      parts == partition(RunText(run), target_text)
      target_run == Run(<<target_text>>, CopiedFmt(run.fmt))
      after_run == IF parts.after # <<>>
                   THEN <<Run(<<parts.after>>, CopiedFmt(run.fmt))>>
                   ELSE <<>>
      anchor == IF new_paragraph THEN <<>> ELSE <<AnchorRun>>
  IN SubSeq(para, 1, k - 1) \o <<SetText(run, parts.before), target_run>>
       \o anchor \o after_run \o SubSeq(para, k + 1, Len(para))

\* Lines 197-206 and 248-249: an empty w:p is added after paragraph i, and the
\* anchor run is added to the paragraph the helper returns:
\* para._parent._body._paragraphs[-1], by the comment of line 206 the last
\* paragraph of the body (the new one only when paragraph i was the last).
insert_paragraph_after(doc, i) ==
  LET added == SubSeq(doc, 1, i) \o << <<>> >> \o SubSeq(doc, i + 1, Len(doc))
      anchor_para == Len(added)
  IN [added EXCEPT ![anchor_para] = Append(@, AnchorRun)]

\* The first paragraph at which the loop of lines 211-223 stops, 0 if none.
FoundPara(doc, target_text) ==
  LET hits == {i \in 1..Len(doc) : ParaHasTarget(doc[i], target_text)}
  IN IF hits = {} THEN 0 ELSE CHOOSE x \in hits : \A y \in hits : x <= y

\* Lines 208-261 on the document read from docx_path, when a paragraph is
\* found: the document that doc.save writes.
AddComment(doc, target_text, new_paragraph) ==
  LET i == FoundPara(doc, target_text)
      split == [doc EXCEPT ![i] = SplitPara(doc[i], target_text, new_paragraph)]
  IN IF new_paragraph THEN insert_paragraph_after(split, i) ELSE split

\* ----------------------------------------------------------- the session
VARIABLES
  doc_tree,      \* self.doc_tree: the in-memory tree of word/document.xml
  id_counter,    \* self._id_counter: the value its next next() returns
  docx_path,     \* self.docx_path: "input" or "output"
  input_file,    \* the .docx the session was opened on
  output_file,   \* the .docx at output_path
  temp_dir,      \* word/document.xml in the unzipped temp_dir
  last,          \* the last call: its arguments, its outcome, the tree before it
  subs,          \* the change ids modify_text_in_doc has drawn, with their texts
  calls          \* the number of calls made

vars == <<doc_tree, id_counter, docx_path, input_file, output_file, temp_dir, last, subs, calls>>

\* The arguments of the calls: (old_text, new_text) of a substitution, with
\* an empty and a whitespace-only old_text and a new_text that holds old_text;
\* (target_text, new_paragraph) of an annotation.
SubstituteArgs ==
  {<< <<>>, <<"b">> >>, << <<" ">>, <<"b">> >>, << <<"a">>, <<"a">> >>, << <<"a">>, <<"b">> >>}
AnnotateArgs ==
  {<< <<>>, FALSE >>, << <<" ">>, TRUE >>, << <<"a">>, FALSE >>, << <<"a">>, TRUE >>}
Authors == {"Fuad"}

\* The paragraphs of the documents a session is opened on.
ParaSet ==
  { <<Run(<< <<"a">> >>, RichFmt)>>,
    <<Run(<< <<"b", "a", "b">> >>, RichFmt), Run(<< <<"a">> >>, NoFmt)>>,
    <<Run(<< <<"b">>, <<"a">> >>, NoFmt)>>,
    <<InsNode(2, "Ann", <<Run(<< <<"a">> >>, NoFmt)>>), DelNode(1, "Ann", <<"a">>)>>,
    <<Run(<< <<"b">> >>, NoFmt)>> }

InitDocs == UNION {[1..n -> ParaSet] : n \in 1..MaxParas}

NoCall ==
  [op |-> "none", text |-> <<>>, new_text |-> <<>>, author |-> "", new_paragraph |-> FALSE,
   result |-> "", pre |-> <<>>, src |-> <<>>]

\* __init__ (lines 25-32): unzip, seed the counter, load the tree.
Init ==
  /\ input_file \in {File(d) : d \in InitDocs}
  /\ docx_path = "input"
  /\ output_file = NoFile
  /\ temp_dir = input_file
  /\ id_counter = highest_existing_change_id(temp_dir) + 1
  /\ doc_tree = temp_dir.doc
  /\ last = NoCall
  /\ subs = <<>>
  /\ calls = 0

\* modify_text_in_doc (lines 113-172).
modify_text_in_doc(old_text, new_text, author) ==
  LET r == ModifyFrom(doc_tree, 1, old_text, new_text, author, id_counter, <<>>)
  IN /\ calls < MaxOps
     /\ calls' = calls + 1
     /\ doc_tree' = r.tree
     /\ id_counter' = r.counter
     /\ subs' = subs \o [k \in 1..Len(r.ids) |->
                           [id |-> r.ids[k], old |-> old_text,
                            new |-> new_text, author |-> author]]
     /\ last' = [op |-> "modify", text |-> old_text, new_text |-> new_text, author |-> author,
                 new_paragraph |-> FALSE, result |-> IF r.raised THEN "raised" ELSE "done",
                 pre |-> doc_tree, src |-> <<>>]
     /\ UNCHANGED <<docx_path, input_file, output_file, temp_dir>>

\* The file self.docx_path names.
FileAt(path) == IF path = "input" THEN input_file ELSE output_file

\* add_comment_to_paragraph (lines 175-274).
add_comment_to_paragraph(target_text, new_paragraph) ==
  LET src == FileAt(docx_path).doc
      invalid == target_text = <<>> \/ IsBlank(target_text)
      found == ~invalid /\ FoundPara(src, target_text) # 0
      saved == AddComment(src, target_text, new_paragraph)
  IN /\ calls < MaxOps
     /\ calls' = calls + 1
     /\ last' = [op |-> "comment", text |-> target_text, new_text |-> <<>>, author |-> "",
                 new_paragraph |-> new_paragraph,
                 result |-> IF invalid THEN "invalid" ELSE IF found THEN "added" ELSE "notfound",
                 pre |-> doc_tree, src |-> src]
     /\ IF found
        THEN /\ output_file' = File(saved)
             /\ docx_path' = "output"
             /\ temp_dir' = File(saved)
             /\ id_counter' = highest_existing_change_id(File(saved)) + 1
             /\ doc_tree' = saved
        ELSE UNCHANGED <<output_file, docx_path, temp_dir, id_counter, doc_tree>>
     /\ UNCHANGED <<input_file, subs>>

\* save (lines 277-294): _write_xml raises when temp_dir is gone; otherwise
\* the tree is written, zipped to output_path, and temp_dir removed.
save ==
  /\ calls < MaxOps
  /\ calls' = calls + 1
  /\ last' = [NoCall EXCEPT !.op = "save", !.pre = doc_tree,
                             !.result = IF temp_dir.exists THEN "saved" ELSE "raised"]
  /\ IF temp_dir.exists
     THEN output_file' = File(doc_tree) /\ temp_dir' = NoFile
     ELSE UNCHANGED <<output_file, temp_dir>>
  /\ UNCHANGED <<doc_tree, id_counter, docx_path, input_file, subs>>

Substitute == \E s \in SubstituteArgs, a \in Authors : modify_text_in_doc(s[1], s[2], a)

Annotate == \E c \in AnnotateArgs : add_comment_to_paragraph(c[1], c[2])

Next == Substitute \/ Annotate \/ save

Spec == Init /\ [][Next]_vars

\* A session that only substitutes.
SubstituteSpec == Init /\ [][Substitute]_vars

\* ------------------------------------------------------------ properties
\* The number of nodes of one kind below the children kids.
NumKind(kids, kind) ==
  LET nodes == NodesOf(kids)
  IN Cardinality({x \in 1..Len(nodes) : nodes[x].kind = kind})

\* The number of nodes of one kind in a document.
DocNumKind(doc, kind) ==
  LET nodes == AllNodes(doc)
  IN Cardinality({x \in 1..Len(nodes) : nodes[x].kind = kind})

\* The index of the first child of para holding a w:t the scan stops at.
FirstMatchChild(para, old_text) ==
  CHOOSE x \in 1..Len(para) :
    /\ Matches(para[x], old_text)
    /\ \A y \in 1..(x - 1) : ~Matches(para[y], old_text)

\* The last n children of kids.
LastN(kids, n) == SubSeq(kids, Len(kids) - n + 1, Len(kids))

ModifyDone == last.op = "modify" /\ last.result = "done"

\* C1 as stated: a call in whose document old_text occurs adds exactly one
\* deletion/insertion pair to the whole document.
C1_OnePairPerCall ==
  (ModifyDone /\ \E i \in 1..Len(last.pre) : ParaMatches(last.pre[i], last.text))
    => /\ DocNumKind(doc_tree, "del") = DocNumKind(last.pre, "del") + 1
       /\ DocNumKind(doc_tree, "ins") = DocNumKind(last.pre, "ins") + 1

\* C1 amended: a call edits the first matching text element of every
\* paragraph that holds one.  Each such paragraph gains exactly one deletion
\* and one insertion, its children before and after the child holding that
\* text element are unchanged, and a paragraph without a match is unchanged.
C1_OnePairPerParagraph ==
  ModifyDone =>
    /\ Len(doc_tree) = Len(last.pre)
    /\ \A i \in 1..Len(last.pre) :
         LET before == last.pre[i]
             after == doc_tree[i]
         IN IF ParaMatches(before, last.text)
            THEN LET k == FirstMatchChild(before, last.text)
                 IN /\ NumKind(after, "del") = NumKind(before, "del") + 1
                    /\ NumKind(after, "ins") = NumKind(before, "ins") + 1
                    /\ Len(after) >= Len(before) - 1
                    /\ SubSeq(after, 1, k - 1) = SubSeq(before, 1, k - 1)
                    /\ LastN(after, Len(before) - k) = LastN(before, Len(before) - k)
            ELSE after = before

\* A call on a document whose first and second paragraph both hold old_text,
\* the first of them twice (in two runs).
C1_Witness ==
  /\ ModifyDone
  /\ Len(last.pre) >= 2
  /\ ParaMatches(last.pre[1], last.text)
  /\ ParaMatches(last.pre[2], last.text)
  /\ Cardinality({k \in 1..Len(last.pre[1]) : Matches(last.pre[1][k], last.text)}) >= 2

\* C2: the change ids drawn by the substitutions of a session are pairwise
\* distinct and greater than every id of the document the session opened;
\* each is carried by exactly one deletion and exactly one insertion.
C2_ChangeIdsUnique ==
  LET nodes == AllNodes(doc_tree)
  IN /\ \A i, j \in 1..Len(subs) : i # j => subs[i].id # subs[j].id
     /\ \A i \in 1..Len(subs) :
          /\ subs[i].id > highest_existing_change_id(input_file)
          /\ \A kind \in {"del", "ins"} :
               Cardinality({x \in 1..Len(nodes) :
                              nodes[x].kind = kind /\ nodes[x].id = subs[i].id}) = 1

\* Three substitutions drawn over more than one call, on a document that
\* already carried revisions.
C2_Witness ==
  /\ Len(subs) >= 3
  /\ calls >= 2
  /\ highest_existing_change_id(input_file) > 0

\* The runs (outside deletions) of a document whose text holds old_text.
RunsHolding(doc, old_text) ==
  LET nodes == AllNodes(doc)
  IN {x \in 1..Len(nodes) : nodes[x].kind = "r" /\ Contains(RunText(nodes[x]), old_text)}

\* C8: a call whose old_text occurs in no text run leaves the tree as it was.
C8_AbsentTextNoChange ==
  (last.op = "modify" /\ RunsHolding(last.pre, last.text) = {}) => doc_tree = last.pre

\* A call with a non-empty old_text that the document, which has text, does
\* not hold.
C8_Witness ==
  /\ last.op = "modify"
  /\ last.text = <<"a">>
  /\ RunsHolding(last.pre, last.text) = {}
  /\ RunsHolding(last.pre, <<"b">>) # {}

RECURSIVE ViewKids(_)
\* Children compared without their formatting: each node's kind, text (the
\* texts of its text elements joined), revision id and author, comment mark
\* and children.
ViewKids(kids) ==
  [x \in 1..Len(kids) |->
     [kind |-> kids[x].kind, text |-> Concat(kids[x].ts), id |-> kids[x].id,
      author |-> kids[x].author, cm |-> kids[x].cm, kids |-> ViewKids(kids[x].kids)]]

RECURSIVE ExpectedKids(_, _, _, _, _)
\* What C3 says of the children of the matched run's parent: the run with
\* text before+old+after gives way to [run(before)?, del(old), ins(" "+new),
\* run(after)?], every other child staying.
ExpectedKids(kids, old_text, new_text, author, change_id) ==
  LET k == FirstMatchChild(kids, old_text)
      run == kids[k]
      parts == partition(RunText(run), old_text)
  IN IF run.kind = "r"
     THEN SubSeq(kids, 1, k - 1)
            \o (IF parts.before # <<>> THEN <<Run(<<parts.before>>, run.fmt)>> ELSE <<>>)
            \o <<DelNode(change_id, author, old_text),
                 InsNode(change_id, author, <<Run(<< <<" ">> \o new_text >>, NoFmt)>>)>>
            \o (IF parts.after # <<>> THEN <<Run(<<parts.after>>, run.fmt)>> ELSE <<>>)
            \o SubSeq(kids, k + 1, Len(kids))
     ELSE [kids EXCEPT ![k].kids =
             ExpectedKids(run.kids, old_text, new_text, author, change_id)]

\* C3: after a substitution matched a run whose text is before+old+after, the
\* parent's children there are [run(before) if before is not empty, the
\* deletion of old, the insertion of " "+new, run(after) if after is not
\* empty], deletion and insertion with one id and one author, and every other
\* sibling is as it was.
C3_SpliceShape ==
  ModifyDone =>
    \A i \in 1..Len(last.pre) :
      ParaMatches(last.pre[i], last.text) =>
        \E id \in 1..id_counter :
          ViewKids(doc_tree[i]) =
            ViewKids(ExpectedKids(last.pre[i], last.text, last.new_text, last.author, id))

CommentAdded == last.op = "comment" /\ last.result = "added"

\* The index of the first run of para (a child of the paragraph itself) whose
\* text holds target_text.
FirstRunHolding(para, target_text) ==
  CHOOSE x \in 1..Len(para) :
    /\ para[x].kind = "r" /\ Contains(RunText(para[x]), target_text)
    /\ \A y \in 1..(x - 1) : ~(para[y].kind = "r" /\ Contains(RunText(para[y]), target_text))

IsAnchor(node) == node.kind = "r" /\ node.cm /\ RunText(node) = <<>>

\* C4: the anchor run is empty and sits, in the same paragraph, right after
\* the target run; with new_paragraph, alone in a new paragraph right after
\* the paragraph found, wherever that paragraph is in the body.
C4_AnchorPlace ==
  CommentAdded =>
    LET i == FoundPara(last.src, last.text)
    IN IF last.new_paragraph
       THEN /\ Len(doc_tree) = Len(last.src) + 1
            /\ Len(doc_tree[i + 1]) = 1
            /\ IsAnchor(doc_tree[i + 1][1])
       ELSE \E k \in 1..(Len(doc_tree[i]) - 1) :
              /\ doc_tree[i][k].kind = "r"
              /\ RunText(doc_tree[i][k]) = last.text
              /\ IsAnchor(doc_tree[i][k + 1])

\* C5: the split replaces the run with text before+target+after by
\* [run(before) if before is not empty, run(target), run(after) if after is
\* not empty] (the anchor run following the target run in the same-paragraph
\* mode), and no other child of the paragraph moves or changes.
C5_SplitShape ==
  CommentAdded =>
    LET i == FoundPara(last.src, last.text)
        para == last.src[i]
        k == FirstRunHolding(para, last.text)
        run == para[k]
        parts == partition(RunText(run), last.text)
    IN ViewKids(doc_tree[i]) =
         ViewKids(SubSeq(para, 1, k - 1)
                    \o (IF parts.before # <<>> THEN <<Run(<<parts.before>>, run.fmt)>> ELSE <<>>)
                    \o <<Run(<<last.text>>, run.fmt)>>
                    \o (IF last.new_paragraph THEN <<>> ELSE <<AnchorRun>>)
                    \o (IF parts.after # <<>> THEN <<Run(<<parts.after>>, run.fmt)>> ELSE <<>>)
                    \o SubSeq(para, k + 1, Len(para)))

\* C6: every deletion and every insertion is a child of a paragraph, never a
\* descendant of another deletion or insertion.
C6_RevisionsNotNested ==
  \A i \in 1..Len(doc_tree) : \A k \in 1..Len(doc_tree[i]) :
    /\ NumKind(doc_tree[i][k].kids, "del") = 0
    /\ NumKind(doc_tree[i][k].kids, "ins") = 0

\* C7: an editing call with an empty or whitespace-only text changes neither
\* the tree, nor the id counter, nor the files.
C7_BlankTextNoMutation ==
  [][(calls' = calls + 1 /\ last'.op \in {"modify", "comment"} /\ IsBlank(last'.text))
       => /\ doc_tree' = doc_tree
          /\ id_counter' = id_counter
          /\ input_file' = input_file
          /\ output_file' = output_file
          /\ temp_dir' = temp_dir]_vars

\* C9: the runs a split produces carry the formatting of the run that was
\* split: the run kept for before and the trailing run of a substitution, the
\* target run and the after run of an annotation.  (Runs with one text
\* element.)
C9_SplitKeepsFormatting ==
  /\ ModifyDone =>
       \A i \in 1..Len(last.pre) :
         ParaMatches(last.pre[i], last.text) =>
           LET k == FirstMatchChild(last.pre[i], last.text)
               run == last.pre[i][k]
               parts == partition(RunText(run), last.text)
               shift == IF parts.before # <<>> THEN 1 ELSE 0
           IN (run.kind = "r" /\ Len(run.ts) = 1) =>
                /\ parts.before # <<>> => doc_tree[i][k].fmt = run.fmt
                /\ parts.after # <<>> => doc_tree[i][k + shift + 2].fmt = run.fmt
  /\ CommentAdded =>
       LET i == FoundPara(last.src, last.text)
           k == FirstRunHolding(last.src[i], last.text)
           run == last.src[i][k]
           parts == partition(RunText(run), last.text)
           shift == IF last.new_paragraph THEN 0 ELSE 1
       IN Len(run.ts) = 1 =>
            /\ doc_tree[i][k].fmt = run.fmt
            /\ doc_tree[i][k + 1].fmt = run.fmt
            /\ parts.after # <<>> => doc_tree[i][k + shift + 2].fmt = run.fmt

\* Whether doc holds the deletion/insertion pair of substitution s.
PairIn(doc, s) ==
  LET nodes == AllNodes(doc)
  IN /\ \E x \in 1..Len(nodes) :
          /\ nodes[x].kind = "del" /\ nodes[x].id = s.id /\ nodes[x].author = s.author
          /\ nodes[x].kids[1].ts = <<s.old>>
     /\ \E x \in 1..Len(nodes) :
          nodes[x].kind = "ins" /\ nodes[x].id = s.id /\ nodes[x].author = s.author

\* C10: the document save writes holds the deletion/insertion pair of every
\* substitution of the session, whatever annotations came between.
C10_SavedHoldsSubstitutions ==
  (last.op = "save" /\ last.result = "saved")
    => \A x \in 1..Len(subs) : PairIn(output_file.doc, subs[x])

====
